---- MODULE Spec2Model ----
(***************************************************************************)
(* Mask-refinement and compositing pipeline of the background remover:     *)
(* AlphaCompose, BackgroundReplacer and AutoCrop over ImageInput, Mask and *)
(* ImageOutput values.                                                     *)
(*                                                                         *)
(* Buffers are functions row -> column -> pixel with 0-based indices, as   *)
(* in the numpy arrays of the source.  A pixel of an ImageInput is a       *)
(* sequence <<r, g, b>>, a pixel of an ImageOutput is <<r, g, b, a>>.      *)
(*                                                                         *)
(* float32 values are kept in fixed point with MaskScale units per 1.0,    *)
(* MaskScale = 1024 * 255, so that the values with 10 fractional bits and  *)
(* the values n/255 that "uint8 / 255.0" produces are both whole numbers   *)
(* of units.  The masks that are blended (MaskVals) have at most 10        *)
(* fractional bits and the colour samples at most 9 integer bits, so each  *)
(* float32 product, sum and difference of the blend is exact.  For n/255,  *)
(* float32(n / 255) * 255 truncates to n for every n in 0..255, as the     *)
(* exact quotient does.                                                    *)
(***************************************************************************)
EXTENDS Integers, Sequences, FiniteSets, TLC

VARIABLES image, mask, output, result, op

vars == <<image, mask, output, result, op>>

-----------------------------------------------------------------------------
(* Bounds of the model                                                     *)

MaxHeight == 2

MaxWidth == 2

MaxBlurStrength == 4

MaxCropHeight == 2

MaxCropWidth == 3

MaxSmoothPixels == 1

MaxFeatherPixels == 1

\* longest list of image paths of a batch, and the largest worker pool
MaxPaths == 3

MaxWorkers == 2

\* threads that share one engine, and predict_mask calls of each thread
MaxThreads == 2

MaxCalls == 2

-----------------------------------------------------------------------------
(* Value sets the inputs are drawn from                                    *)

\* units per 1.0 of a float32 mask value (mask.py: "values 0..1 (float32)")
MaskScale == 261120

\* 0.0, 0.5, 1023/1024 (just below 1.0) and 1.0
MaskVals == {0, MaskScale \div 2, (1023 * MaskScale) \div 1024, MaskScale}

Palette == {<<255, 255, 255>>, <<10, 100, 201>>}

Colors == {<<0, 0, 0>>, <<255, 255, 255>>, <<0, 128, 255>>}

Heights == 1..MaxHeight

Widths == 1..MaxWidth

BlurStrengths == 0..MaxBlurStrength

-----------------------------------------------------------------------------
(* numpy helpers                                                           *)

Rows(data) == DOMAIN data

Cols(data) == IF DOMAIN data = {} THEN {} ELSE DOMAIN data[0]

\* data.shape[:2]
Shape(data) == <<Cardinality(Rows(data)), Cardinality(Cols(data))>>

Uniform(h, w, v) == [y \in 0..(h - 1) |-> [x \in 0..(w - 1) |-> v]]

\* buffers equal to b everywhere but for at most one cell
Sparse(h, w, V) ==
    {[y \in 0..(h - 1) |-> [x \in 0..(w - 1) |->
          IF <<y, x>> = p THEN d ELSE b]] :
       <<b, d, p>> \in V \X V \X ((0..(h - 1)) \X (0..(w - 1)))}

SetMax(S) == CHOOSE m \in S : \A s \in S : s <= m

SetMin(S) == CHOOSE m \in S : \A s \in S : m <= s

\* ndarray.max() / ndarray.min() of a 2-D buffer
ArrayMax(data) == SetMax({data[y][x] : y \in Rows(data), x \in Cols(data)})

ArrayMin(data) == SetMin({data[y][x] : y \in Rows(data), x \in Cols(data)})

\* np.clip(v, lo, hi) on a fixed-point value
Clip(v, lo, hi) == IF v < lo THEN lo ELSE IF v > hi THEN hi ELSE v

\* ndarray.astype(np.uint8) of a fixed-point float: the fraction is dropped
\* (rounding toward zero) and the integer is kept in 8 bits
AsTypeUint8(f) ==
    (IF f >= 0 THEN f \div MaskScale ELSE -((-f) \div MaskScale)) % 256

RECURSIVE SumSeq(_)
SumSeq(s) == IF s = <<>> THEN 0 ELSE Head(s) + SumSeq(Tail(s))

-----------------------------------------------------------------------------
(* Exceptions and returns                                                  *)

NoResult == [kind |-> "none"]

Raise(e) == [kind |-> "error", error |-> e]

Return(v) == [kind |-> "ok", value |-> v]

-----------------------------------------------------------------------------
(* Entities                                                                *)

\* ImageInput.__post_init__: (H, W, 3) data whose shape matches the metadata
ImageInput(data, width, height, file_path) ==
    IF Shape(data) # <<height, width>>
    THEN Raise("ValueError")
    ELSE Return([data |-> data, width |-> width, height |-> height,
                 file_path |-> file_path])

\* only the upper end of the range is checked
MaskUpperOnly(data, width, height, is_binary) ==
    IF Shape(data) # <<height, width>>
    THEN Raise("ValueError")
    ELSE IF ArrayMax(data) > MaskScale
    THEN Raise("ValueError")
    ELSE Return([data |-> data, width |-> width, height |-> height,
                 is_binary |-> is_binary])

\* Mask.__post_init__: 2-D data, shape matches the metadata, values in [0, 1]
Mask(data, width, height, is_binary) ==
    IF Shape(data) # <<height, width>>
    THEN Raise("ValueError")
    ELSE IF ArrayMin(data) < 0 \/ ArrayMax(data) > MaskScale
    THEN Raise("ValueError")
    ELSE Return([data |-> data, width |-> width, height |-> height,
                 is_binary |-> is_binary])

\* ImageOutput.__post_init__: (H, W, 4) data whose shape matches the metadata
ImageOutput(data, width, height, original_path) ==
    IF \E y \in Rows(data), x \in Cols(data) : Len(data[y][x]) # 4
    THEN Raise("ValueError")
    ELSE IF Shape(data) # <<height, width>>
    THEN Raise("ValueError")
    ELSE Return([data |-> data, width |-> width, height |-> height,
                 original_path |-> original_path])

-----------------------------------------------------------------------------
(* AlphaCompose                                                            *)

composeSwapped(im, m) ==
    IF im.height # m.height \/ im.width # m.width
    THEN Raise("ValueError")
    ELSE LET rgb == im.data
             alpha == [y \in Rows(m.data) |-> [x \in Cols(m.data) |->
                          AsTypeUint8(m.data[y][x] * 255)]]
             rgba == [y \in Rows(rgb) |-> [x \in Cols(rgb) |->
                          <<rgb[y][x][3], rgb[y][x][2], rgb[y][x][1],
                            alpha[y][x]>>]]
         IN  ImageOutput(rgba, im.width, im.height, im.file_path)

compose(im, m) ==
    IF im.height # m.height \/ im.width # m.width
    THEN Raise("ValueError")
    ELSE LET rgb == im.data
             alpha == [y \in Rows(m.data) |-> [x \in Cols(m.data) |->
                          AsTypeUint8(m.data[y][x] * 255)]]
             rgba == [y \in Rows(rgb) |-> [x \in Cols(rgb) |->
                          rgb[y][x] \o <<alpha[y][x]>>]]
         IN  ImageOutput(rgba, im.width, im.height, im.file_path)

-----------------------------------------------------------------------------
(* OpenCV primitives                                                       *)

\* cv2.BORDER_REFLECT_101 (the default border): index i of an axis of n cells
Reflect101(i, n) ==
    IF n = 1 THEN 0
    ELSE LET period == 2 * (n - 1)
             j == i % period
         IN  IF j >= n THEN period - j ELSE j

\* cv2.getGaussianKernel(ksize, sigma = 0): the fixed small kernels, in
\* units of 1/256
GaussianKernel(ksize) ==
    CASE ksize = 1 -> <<256>>
      [] ksize = 3 -> <<64, 128, 64>>
      [] ksize = 5 -> <<16, 64, 96, 64, 16>>
      [] ksize = 7 -> <<8, 28, 56, 72, 56, 28, 8>>

\* cv2.GaussianBlur(src, (ksize, ksize), 0) on a uint8 (H, W, 3) buffer: the
\* kernel size must be positive and odd; the separable filter runs in 8.8
\* fixed point and the result is rounded to nearest
GaussianBlur(src, ksize) ==
    IF ksize <= 0 \/ ksize % 2 = 0
    THEN Raise("cv2.error")
    ELSE LET k == GaussianKernel(ksize)
             r == (ksize - 1) \div 2
             h == Cardinality(Rows(src))
             w == Cardinality(Cols(src))
             horiz(y, x, c) ==
                 SumSeq([j \in 1..ksize |->
                     k[j] * src[y][Reflect101(x + j - 1 - r, w)][c]])
             vert(y, x, c) ==
                 SumSeq([i \in 1..ksize |->
                     k[i] * horiz(Reflect101(y + i - 1 - r, h), x, c)])
         IN  Return([y \in Rows(src) |-> [x \in Cols(src) |->
                 [c \in 1..3 |-> (vert(y, x, c) + 32768) \div 65536]]])

\* cv2.resize(src, (width, height), interpolation = cv2.INTER_LANCZOS4) on a
\* float32 buffer.  The 8x8 Lanczos interpolation is not reproduced: every
\* outcome has the requested shape, and its samples may reproduce a source
\* pixel or overshoot the 0..255 range on either side (ringing).
ResizeOutcomes(src, width, height) ==
    {Uniform(height, width, p) :
        p \in {src[0][0], <<-16, -16, -16>>, <<271, 271, 271>>}}

-----------------------------------------------------------------------------
(* BackgroundReplacer                                                      *)

\* "alpha = mask.data.astype(np.float32); if alpha.max() > 1.0: alpha /= 255"
\* (a valid Mask never takes the branch)
NormalizeAlpha(data) ==
    IF ArrayMax(data) > MaskScale
    THEN [y \in Rows(data) |-> [x \in Cols(data) |-> data[y][x] \div 255]]
    ELSE data

\* original_path or Path("output.png")
PathOrDefault(original_path) ==
    IF original_path = "None" THEN "output.png" ELSE original_path

\* numpy broadcasting of (H, W, .) operands: along each axis the lengths
\* other than 1 must agree
Broadcastable(shapes) ==
    \A i \in 1..2 : Cardinality({s[i] : s \in shapes} \ {1}) <= 1

BroadcastShape(shapes) ==
    [i \in 1..2 |->
        LET lens == {s[i] : s \in shapes} \ {1}
        IN  IF lens = {} THEN 1 ELSE CHOOSE n \in lens : TRUE]

\* the cell of a broadcast operand that lines up with cell (y, x)
At(buf, y, x) ==
    buf[IF Cardinality(Rows(buf)) = 1 THEN 0 ELSE y]
       [IF Cardinality(Cols(buf)) = 1 THEN 0 ELSE x]

\* the same blend with the mask kept as the alpha channel of the output
CompositeMaskAlpha(original, alpha, background, original_path) ==
    LET rgb == original.data
        shapes == {Shape(rgb), Shape(alpha), Shape(background)}
    IN  IF ~Broadcastable(shapes)
        THEN Raise("ValueError")
        ELSE IF BroadcastShape(shapes) # <<original.height, original.width>>
        THEN Raise("ValueError")
        ELSE LET res == [y \in 0..(original.height - 1) |->
                          [x \in 0..(original.width - 1) |->
                            [c \in 1..3 |->
                              AsTypeUint8(Clip(
                                At(rgb, y, x)[c] * At(alpha, y, x)
                                  + At(background, y, x)[c]
                                      * (MaskScale - At(alpha, y, x)),
                                0, 255 * MaskScale))]]]
                 rgba == [y \in Rows(res) |-> [x \in Cols(res) |->
                            res[y][x]
                              \o <<AsTypeUint8(At(alpha, y, x) * 255)>>]]
             IN  ImageOutput(rgba, original.width, original.height,
                             PathOrDefault(original_path))

\* the same blend with the two weights exchanged
CompositeInverted(original, alpha, background, original_path) ==
    LET rgb == original.data
        shapes == {Shape(rgb), Shape(alpha), Shape(background)}
    IN  IF ~Broadcastable(shapes)
        THEN Raise("ValueError")
        ELSE IF BroadcastShape(shapes) # <<original.height, original.width>>
        THEN Raise("ValueError")
        ELSE LET res == [y \in 0..(original.height - 1) |->
                          [x \in 0..(original.width - 1) |->
                            [c \in 1..3 |->
                              AsTypeUint8(Clip(
                                At(background, y, x)[c] * At(alpha, y, x)
                                  + At(rgb, y, x)[c]
                                      * (MaskScale - At(alpha, y, x)),
                                0, 255 * MaskScale))]]]
                 rgba == [y \in Rows(res) |-> [x \in Cols(res) |->
                            res[y][x] \o <<255>>]]
             IN  ImageOutput(rgba, original.width, original.height,
                             PathOrDefault(original_path))

\* "result = rgb * alpha_3ch + background * (1 - alpha_3ch)
\*  result = np.clip(result, 0, 255).astype(np.uint8)
\*  rgba = np.dstack([result, np.full((H, W), 255, dtype = np.uint8)])"
\* followed by the construction of the ImageOutput.  The blend fails when
\* the operands do not broadcast, np.dstack when the blend is not (H, W).
Composite(original, alpha, background, original_path) ==
    LET rgb == original.data
        shapes == {Shape(rgb), Shape(alpha), Shape(background)}
    IN  IF ~Broadcastable(shapes)
        THEN Raise("ValueError")
        ELSE IF BroadcastShape(shapes) # <<original.height, original.width>>
        THEN Raise("ValueError")
        ELSE LET res == [y \in 0..(original.height - 1) |->
                          [x \in 0..(original.width - 1) |->
                            [c \in 1..3 |->
                              AsTypeUint8(Clip(
                                At(rgb, y, x)[c] * At(alpha, y, x)
                                  + At(background, y, x)[c]
                                      * (MaskScale - At(alpha, y, x)),
                                0, 255 * MaskScale))]]]
                 rgba == [y \in Rows(res) |-> [x \in Cols(res) |->
                            res[y][x] \o <<255>>]]
             IN  ImageOutput(rgba, original.width, original.height,
                             PathOrDefault(original_path))

\* the size check compares the heights only
replace_with_colorHeightOnly(original, m, color, original_path) ==
    IF Shape(m.data)[1] # original.height
    THEN Raise("ValueError")
    ELSE LET alpha == NormalizeAlpha(m.data)
             background == Uniform(original.height, original.width, color)
         IN  Composite(original, alpha, background, original_path)

replace_with_color(original, m, color, original_path) ==
    IF Shape(m.data) # <<original.height, original.width>>
    THEN Raise("ValueError")
    ELSE LET alpha == NormalizeAlpha(m.data)
             background == Uniform(original.height, original.width, color)
         IN  Composite(original, alpha, background, original_path)

\* the background is never resized
BackgroundBufferAsIs(original, background_image, resized) ==
    background_image.data

\* the background buffer that is blended: resized is what cv2.resize returns
\* when it is called
BackgroundBuffer(original, background_image, resized) ==
    IF <<background_image.height, background_image.width>>
         # <<original.height, original.width>>
    THEN resized
    ELSE background_image.data

replace_with_image(original, m, background_image, resized, original_path) ==
    IF Shape(m.data) # <<original.height, original.width>>
    THEN Raise("ValueError")
    ELSE LET alpha == NormalizeAlpha(m.data)
             bg_data == BackgroundBuffer(original, background_image, resized)
         IN  Composite(original, alpha, bg_data, original_path)

\* the blur strength is used as given
OddKernelAsGiven(blur_strength) == blur_strength

\* "if blur_strength % 2 == 0: blur_strength += 1"
OddKernel(blur_strength) ==
    IF blur_strength % 2 = 0 THEN blur_strength + 1 ELSE blur_strength

replace_with_blur(original, m, blur_strength, original_path) ==
    IF Shape(m.data) # <<original.height, original.width>>
    THEN Raise("ValueError")
    ELSE LET ksize == OddKernel(blur_strength)
             alpha == NormalizeAlpha(m.data)
             blurred == GaussianBlur(original.data, ksize)
         IN  IF blurred.kind = "error"
             THEN blurred
             ELSE Composite(original, alpha, blurred.value, original_path)

-----------------------------------------------------------------------------
(* Settings                                                                *)

\* Settings.__post_init__: the post-processing fields are validated
Settings(threshold, smooth_pixels, feather_pixels, auto_crop_output) ==
    IF ~(0 <= threshold /\ threshold <= MaskScale)
    THEN Raise("ValueError")
    ELSE IF smooth_pixels < 0
    THEN Raise("ValueError")
    ELSE IF feather_pixels < 0
    THEN Raise("ValueError")
    ELSE Return([threshold |-> threshold, smooth_pixels |-> smooth_pixels,
                 feather_pixels |-> feather_pixels,
                 auto_crop_output |-> auto_crop_output])

-----------------------------------------------------------------------------
(* OpenCV morphology                                                       *)

\* round(sqrt(n)) for a natural number n
RoundSqrt(n) ==
    CHOOSE d \in 0..(n + 1) :
        /\ (2 * d - 1) * (2 * d - 1) <= 4 * n \/ d = 0
        /\ 4 * n < (2 * d + 1) * (2 * d + 1)

\* cv2.getStructuringElement(cv2.MORPH_ELLIPSE, (ksize, ksize)) as the set of
\* offsets (dy, dx) from the anchor in the middle: row dy spans the columns
\* -dx .. dx with dx = round(r * sqrt(1 - dy^2 / r^2)), r = ksize div 2
StructuringElement(ksize) ==
    LET r == ksize \div 2
    IN  {o \in ((-r)..r) \X ((-r)..r) :
            LET half == RoundSqrt(r * r - o[1] * o[1])
            IN  -half <= o[2] /\ o[2] <= half}

\* the cells of a 2-D buffer under the structuring element put on (y, x);
\* cells outside the buffer take no part (the default border value)
Covered(data, kernel, y, x) ==
    {data[y + o[1]][x + o[2]] :
        o \in {q \in kernel : /\ y + q[1] \in Rows(data)
                               /\ x + q[2] \in Cols(data)}}

\* cv2.erode / cv2.dilate
Erode(data, kernel) ==
    [y \in Rows(data) |-> [x \in Cols(data) |->
        SetMin(Covered(data, kernel, y, x))]]

Dilate(data, kernel) ==
    [y \in Rows(data) |-> [x \in Cols(data) |->
        SetMax(Covered(data, kernel, y, x))]]

\* cv2.morphologyEx(data, cv2.MORPH_OPEN / cv2.MORPH_CLOSE, kernel)
MorphOpen(data, kernel) == Dilate(Erode(data, kernel), kernel)

MorphClose(data, kernel) == Erode(Dilate(data, kernel), kernel)

\* cv2.GaussianBlur on a single-channel uint8 buffer
GaussianBlur2D(data, ksize) ==
    LET lifted == [y \in Rows(data) |-> [x \in Cols(data) |->
                      <<data[y][x], data[y][x], data[y][x]>>]]
        blurred == GaussianBlur(lifted, ksize)
    IN  IF blurred.kind = "error"
        THEN blurred
        ELSE Return([y \in Rows(data) |-> [x \in Cols(data) |->
                        blurred.value[y][x][1]]])

-----------------------------------------------------------------------------
(* PostProcessMask                                                         *)

\* (processed_data * 255).astype(np.uint8)
ToUint8(data) ==
    [y \in Rows(data) |-> [x \in Cols(data) |->
        AsTypeUint8(data[y][x] * 255)]]

\* the 8-bit samples are divided by 254
FromUint8By254(data) ==
    [y \in Rows(data) |-> [x \in Cols(data) |->
        (data[y][x] * MaskScale) \div 254]]

\* mask_uint8.astype(np.float32) / 255.0
FromUint8(data) ==
    [y \in Rows(data) |-> [x \in Cols(data) |->
        (data[y][x] * MaskScale) \div 255]]

\* the cut keeps only the values above the threshold
ThresholdStepStrict(data, is_binary, threshold) ==
    IF ~is_binary /\ threshold > 0
    THEN [y \in Rows(data) |-> [x \in Cols(data) |->
             IF data[y][x] > threshold THEN MaskScale ELSE 0]]
    ELSE data

\* step 1: "(processed_data >= settings.threshold).astype(np.float32)"
ThresholdStep(data, is_binary, threshold) ==
    IF ~is_binary /\ threshold > 0
    THEN [y \in Rows(data) |-> [x \in Cols(data) |->
             IF data[y][x] >= threshold THEN MaskScale ELSE 0]]
    ELSE data

\* the mask goes through the 8-bit conversion whatever smooth_pixels is
SmoothStepAlways(data, smooth_pixels) ==
    LET kernel_size == smooth_pixels * 2 + 1
        kernel == StructuringElement(kernel_size)
        opened == MorphOpen(ToUint8(data), kernel)
        closed == MorphClose(opened, kernel)
    IN  FromUint8(closed)

\* step 2: opening, then closing, on the 8-bit mask
SmoothStep(data, smooth_pixels) ==
    IF smooth_pixels > 0
    THEN LET kernel_size == smooth_pixels * 2 + 1
             kernel == StructuringElement(kernel_size)
             opened == MorphOpen(ToUint8(data), kernel)
             closed == MorphClose(opened, kernel)
         IN  FromUint8(closed)
    ELSE data

\* step 3: Gaussian blur of the 8-bit mask
FeatherStep(data, feather_pixels) ==
    IF feather_pixels > 0
    THEN LET kernel_size == feather_pixels * 2 + 1
             blurred == GaussianBlur2D(ToUint8(data), kernel_size)
         IN  IF blurred.kind = "error"
             THEN blurred
             ELSE Return(FromUint8(blurred.value))
    ELSE Return(data)

\* the mask is feathered before it is smoothed
applyFeatherFirst(m, settings) ==
    LET thresholded == ThresholdStep(m.data, m.is_binary, settings.threshold)
        feathered == FeatherStep(thresholded, settings.feather_pixels)
    IN  IF feathered.kind = "error"
        THEN feathered
        ELSE Mask(SmoothStep(feathered.value, settings.smooth_pixels),
                  m.width, m.height, FALSE)

\* the result is flagged binary when no feathering took place
applyKeepsFlag(m, settings) ==
    LET thresholded == ThresholdStep(m.data, m.is_binary, settings.threshold)
        smoothed == SmoothStep(thresholded, settings.smooth_pixels)
        feathered == FeatherStep(smoothed, settings.feather_pixels)
    IN  IF feathered.kind = "error"
        THEN feathered
        ELSE Mask(feathered.value, m.width, m.height,
                  settings.feather_pixels = 0)

\* PostProcessMask.apply
apply(m, settings) ==
    LET thresholded == ThresholdStep(m.data, m.is_binary, settings.threshold)
        smoothed == SmoothStep(thresholded, settings.smooth_pixels)
        feathered == FeatherStep(smoothed, settings.feather_pixels)
    IN  IF feathered.kind = "error"
        THEN feathered
        ELSE Mask(feathered.value, m.width, m.height, FALSE)

-----------------------------------------------------------------------------
(* MaskExporter                                                            *)

\* the fields of the ImageOutput dataclass; none has a default
ImageOutputFields == {"data", "width", "height", "original_path"}

\* ImageOutput(**kwargs): the generated __init__ takes exactly the fields
NewImageOutput(kwargs) ==
    IF DOMAIN kwargs # ImageOutputFields
    THEN Raise("TypeError")
    ELSE ImageOutput(kwargs.data, kwargs.width, kwargs.height,
                     kwargs.original_path)

export_as_grayscale(m) ==
    LET mask_data == IF ArrayMax(m.data) <= MaskScale
                     THEN [y \in Rows(m.data) |-> [x \in Cols(m.data) |->
                              m.data[y][x] * 255]]
                     ELSE m.data
        mask_uint8 == [y \in Rows(m.data) |-> [x \in Cols(m.data) |->
                          AsTypeUint8(Clip(mask_data[y][x], 0,
                                           255 * MaskScale))]]
        rgba == [y \in Rows(m.data) |-> [x \in Cols(m.data) |->
                    <<mask_uint8[y][x], mask_uint8[y][x], mask_uint8[y][x],
                      255>>]]
    IN  NewImageOutput([data |-> rgba, width |-> m.width,
                        height |-> m.height, format |-> "RGBA"])

export_as_binary(m, threshold) ==
    LET mask_data == IF ArrayMax(m.data) > MaskScale
                     THEN [y \in Rows(m.data) |-> [x \in Cols(m.data) |->
                              m.data[y][x] \div 255]]
                     ELSE m.data
        binary == [y \in Rows(m.data) |-> [x \in Cols(m.data) |->
                      IF mask_data[y][x] >= threshold THEN 255 ELSE 0]]
        rgba == [y \in Rows(m.data) |-> [x \in Cols(m.data) |->
                    <<binary[y][x], binary[y][x], binary[y][x], 255>>]]
    IN  NewImageOutput([data |-> rgba, width |-> m.width,
                        height |-> m.height, format |-> "RGBA"])

export_as_alpha_only(m) ==
    LET mask_data == IF ArrayMax(m.data) <= MaskScale
                     THEN [y \in Rows(m.data) |-> [x \in Cols(m.data) |->
                              m.data[y][x] * 255]]
                     ELSE m.data
        mask_uint8 == [y \in Rows(m.data) |-> [x \in Cols(m.data) |->
                          AsTypeUint8(Clip(mask_data[y][x], 0,
                                           255 * MaskScale))]]
        rgba == [y \in 0..(m.height - 1) |-> [x \in 0..(m.width - 1) |->
                    <<255, 255, 255, mask_uint8[y][x]>>]]
    IN  NewImageOutput([data |-> rgba, width |-> m.width,
                        height |-> m.height, format |-> "RGBA"])

-----------------------------------------------------------------------------
(* AutoCrop                                                                *)

\* default of the threshold parameter of crop_to_content / get_crop_bounds
DefaultThreshold == 10

\* np.any(alpha >= threshold, axis = 1) / (axis = 0), as np.where(...)[0]
OccupiedRows(data, threshold) ==
    {y \in Rows(data) : \E x \in Cols(data) : data[y][x][4] >= threshold}

OccupiedCols(data, threshold) ==
    {x \in Cols(data) : \E y \in Rows(data) : data[y][x][4] >= threshold}

\* the rectangle of that size at the top left corner
SliceFromOrigin(data, r0, r1, c0, c1) ==
    [y \in 0..(r1 - r0 - 1) |-> [x \in 0..(c1 - c0 - 1) |-> data[y][x]]]

\* data[r0:r1, c0:c1]
Slice(data, r0, r1, c0, c1) ==
    [y \in 0..(r1 - r0 - 1) |-> [x \in 0..(c1 - c0 - 1) |->
        data[r0 + y][c0 + x]]]

\* the slice leaves out the last occupied row and column
crop_to_contentShort(out, threshold) ==
    LET rows == OccupiedRows(out.data, threshold)
        cols == OccupiedCols(out.data, threshold)
    IN  IF rows = {} \/ cols = {}
        THEN Return(out)
        ELSE LET row_min == SetMin(rows)
                 row_max == SetMax(rows)
                 col_min == SetMin(cols)
                 col_max == SetMax(cols)
                 cropped_data == Slice(out.data, row_min, row_max,
                                       col_min, col_max)
                 new_height == Shape(cropped_data)[1]
                 new_width == Shape(cropped_data)[2]
             IN  ImageOutput(cropped_data, new_width, new_height,
                             out.original_path)

crop_to_content(out, threshold) ==
    LET rows == OccupiedRows(out.data, threshold)
        cols == OccupiedCols(out.data, threshold)
    IN  IF rows = {} \/ cols = {}
        THEN Return(out)
        ELSE LET row_min == SetMin(rows)
                 row_max == SetMax(rows)
                 col_min == SetMin(cols)
                 col_max == SetMax(cols)
                 cropped_data == Slice(out.data, row_min, row_max + 1,
                                       col_min, col_max + 1)
                 new_height == Shape(cropped_data)[1]
                 new_width == Shape(cropped_data)[2]
             IN  ImageOutput(cropped_data, new_width, new_height,
                             out.original_path)

\* an image without content gets an empty rectangle
get_crop_boundsEmpty(out, threshold) ==
    LET rows == OccupiedRows(out.data, threshold)
        cols == OccupiedCols(out.data, threshold)
    IN  IF rows = {} \/ cols = {}
        THEN <<0, 0, 0, 0>>
        ELSE LET row_min == SetMin(rows)
                 row_max == SetMax(rows)
                 col_min == SetMin(cols)
                 col_max == SetMax(cols)
             IN  <<col_min, row_min, col_max - col_min + 1,
                   row_max - row_min + 1>>

\* width and height are the differences of the indices
get_crop_boundsShort(out, threshold) ==
    LET rows == OccupiedRows(out.data, threshold)
        cols == OccupiedCols(out.data, threshold)
    IN  IF rows = {} \/ cols = {}
        THEN <<0, 0, out.width, out.height>>
        ELSE LET row_min == SetMin(rows)
                 row_max == SetMax(rows)
                 col_min == SetMin(cols)
                 col_max == SetMax(cols)
             IN  <<col_min, row_min, col_max - col_min, row_max - row_min>>

\* returns (x, y, width, height)
get_crop_bounds(out, threshold) ==
    LET rows == OccupiedRows(out.data, threshold)
        cols == OccupiedCols(out.data, threshold)
    IN  IF rows = {} \/ cols = {}
        THEN <<0, 0, out.width, out.height>>
        ELSE LET row_min == SetMin(rows)
                 row_max == SetMax(rows)
                 col_min == SetMin(cols)
                 col_max == SetMax(cols)
             IN  <<col_min, row_min, col_max - col_min + 1,
                   row_max - row_min + 1>>

-----------------------------------------------------------------------------
(* Inputs                                                                  *)

ImageInputs(h, w) ==
    {ImageInput(d, w, h, "input.png").value : d \in Sparse(h, w, Palette)}

\* raw masks as the inference boundary hands them over
Masks(h, w) ==
    {Mask(d, w, h, FALSE).value : d \in Sparse(h, w, MaskVals)}

UniformMasks(h, w) ==
    {Mask(Uniform(h, w, v), w, h, FALSE).value : v \in MaskVals}

\* background pictures: a colour gradient, one pixel large or as large as the
\* largest image
BackgroundShapes == {<<1, 1>>, <<MaxHeight, MaxWidth>>}

BackgroundImages ==
    {ImageInput([y \in 0..(s[1] - 1) |-> [x \in 0..(s[2] - 1) |->
                    <<40 + 60 * y, 250 - 100 * x, 7>>]],
                s[2], s[1], "background.png").value : s \in BackgroundShapes}

\* alpha samples just below and at the default threshold, and thresholds
\* that make every pixel, some pixels or no pixel count as content
AlphaVals == {DefaultThreshold - 1, DefaultThreshold}

Thresholds == {0, DefaultThreshold, DefaultThreshold + 1}

\* composites whose colour samples tell the pixels apart
CompositeImages(h, w) ==
    {ImageOutput([y \in 0..(h - 1) |-> [x \in 0..(w - 1) |->
                     <<20 * y + 1, 30 * x + 2, 77, a[y][x]>>]],
                 w, h, "input.png").value :
        a \in [0..(h - 1) -> [0..(w - 1) -> AlphaVals]]}

NoMask == [data |-> <<>>, width |-> 0, height |-> 0, is_binary |-> FALSE]

NoImage == [data |-> <<>>, width |-> 0, height |-> 0]

-----------------------------------------------------------------------------
(* Specification of the compositor and the background replacer             *)

Init ==
    /\ \E h \in Heights, w \in Widths, mh \in Heights, mw \in Widths :
         /\ image \in ImageInputs(h, w)
         /\ mask \in IF <<mh, mw>> = <<h, w>> THEN Masks(mh, mw)
                     ELSE UniformMasks(mh, mw)
    /\ output = NoImage
    /\ result = NoResult
    /\ op = [name |-> "none"]

Compose ==
    /\ result = NoResult
    /\ result' = compose(image, mask)
    /\ op' = [name |-> "compose"]
    /\ UNCHANGED <<image, mask, output>>

ReplaceWithColor ==
    \E color \in Colors :
        /\ result = NoResult
        /\ result' = replace_with_color(image, mask, color, "None")
        /\ op' = [name |-> "replace_with_color", color |-> color]
        /\ UNCHANGED <<image, mask, output>>

ReplaceWithImage ==
    \E background_image \in BackgroundImages :
      \E resized \in ResizeOutcomes(background_image.data,
                                    image.width, image.height) :
        /\ result = NoResult
        /\ result' = replace_with_image(image, mask, background_image,
                                        resized, "None")
        /\ op' = [name |-> "replace_with_image",
                  background_image |-> background_image,
                  bg_data |-> BackgroundBuffer(image, background_image,
                                               resized)]
        /\ UNCHANGED <<image, mask, output>>

ReplaceWithBlur ==
    \E blur_strength \in BlurStrengths :
        /\ result = NoResult
        /\ result' = replace_with_blur(image, mask, blur_strength, "None")
        /\ op' = [name |-> "replace_with_blur",
                  blur_strength |-> blur_strength,
                  ksize |-> OddKernel(blur_strength)]
        /\ UNCHANGED <<image, mask, output>>

Next ==
    \/ Compose
    \/ ReplaceWithColor
    \/ ReplaceWithImage
    \/ ReplaceWithBlur

Spec == Init /\ [][Next]_vars

-----------------------------------------------------------------------------
(* Specification of the content cropper                                    *)

InitCrop ==
    /\ image = NoImage
    /\ mask = NoMask
    /\ \E h \in 1..MaxCropHeight, w \in 1..MaxCropWidth :
         output \in CompositeImages(h, w)
    /\ result = NoResult
    /\ op = [name |-> "none"]

GetCropBounds ==
    \E threshold \in Thresholds :
        /\ result = NoResult
        /\ result' = Return(get_crop_bounds(output, threshold))
        /\ op' = [name |-> "get_crop_bounds", threshold |-> threshold]
        /\ UNCHANGED <<image, mask, output>>

CropToContent ==
    \E threshold \in Thresholds :
        /\ result = NoResult
        /\ result' = crop_to_content(output, threshold)
        /\ op' = [name |-> "crop_to_content", threshold |-> threshold]
        /\ UNCHANGED <<image, mask, output>>

\* the cropped image is cropped once more with the same threshold
CropAgain ==
    /\ op.name = "crop_to_content"
    /\ result.kind = "ok"
    /\ output' = result.value
    /\ result' = crop_to_content(result.value, op.threshold)
    /\ op' = [name |-> "crop_again", threshold |-> op.threshold]
    /\ UNCHANGED <<image, mask>>

NextCrop ==
    \/ GetCropBounds
    \/ CropToContent
    \/ CropAgain

SpecCrop == InitCrop /\ [][NextCrop]_vars

-----------------------------------------------------------------------------
(* Specification of the Mask entity, the mask refiner and the exporters    *)

\* candidate samples of a mask buffer: -1/1024, 0.0, 0.2, 0.5, 0.6, 1.0,
\* 1 + 1/1024 and, from the 0..255 scale, 1.0, 128.0 and 255.0
RawVals ==
    {-255, 0, MaskScale \div 5, MaskScale \div 2, (3 * MaskScale) \div 5,
     MaskScale, MaskScale + 255, 128 * MaskScale, 255 * MaskScale}

SettingsThresholds == {0, MaskScale \div 2, MaskScale}

AllSettings ==
    {Settings(t, s, f, FALSE).value :
        t \in SettingsThresholds, s \in 0..MaxSmoothPixels,
        f \in 0..MaxFeatherPixels}

\* threshold arguments of export_as_binary; 0.5 is the default
ExportThresholds == {MaskScale \div 2, MaskScale}

InitMask ==
    /\ image = NoImage
    /\ mask = NoMask
    /\ output = NoImage
    /\ result = NoResult
    /\ op = [name |-> "none"]

\* Mask(data = ..., width = ..., height = ..., is_binary = ...)
NewMask ==
    \E h \in Heights, w \in Widths, is_binary \in BOOLEAN :
      \E data \in Sparse(h, w, RawVals), width \in {w, w + 1} :
        /\ op.name = "none"
        /\ result' = Mask(data, width, h, is_binary)
        /\ mask' = IF result'.kind = "ok" THEN result'.value ELSE mask
        /\ op' = [name |-> "Mask", data |-> data, width |-> width,
                  height |-> h]
        /\ UNCHANGED <<image, output>>

Apply ==
    \E settings \in AllSettings :
        /\ op.name = "Mask"
        /\ result.kind = "ok"
        /\ result' = apply(mask, settings)
        /\ op' = [name |-> "apply", settings |-> settings, input |-> mask]
        /\ UNCHANGED <<image, mask, output>>

ExportAsGrayscale ==
    /\ op.name = "Mask"
    /\ result.kind = "ok"
    /\ result' = export_as_grayscale(mask)
    /\ op' = [name |-> "export_as_grayscale"]
    /\ UNCHANGED <<image, mask, output>>

ExportAsBinary ==
    \E threshold \in ExportThresholds :
        /\ op.name = "Mask"
        /\ result.kind = "ok"
        /\ result' = export_as_binary(mask, threshold)
        /\ op' = [name |-> "export_as_binary", threshold |-> threshold]
        /\ UNCHANGED <<image, mask, output>>

ExportAsAlphaOnly ==
    /\ op.name = "Mask"
    /\ result.kind = "ok"
    /\ result' = export_as_alpha_only(mask)
    /\ op' = [name |-> "export_as_alpha_only"]
    /\ UNCHANGED <<image, mask, output>>

NextMask ==
    \/ NewMask
    \/ Apply
    \/ ExportAsGrayscale
    \/ ExportAsBinary
    \/ ExportAsAlphaOnly

SpecMask == InitMask /\ [][NextMask]_vars

-----------------------------------------------------------------------------
(* Specification of buffer sharing between a stage's input and its result  *)

\* where the buffer of a returned image lives: in storage of its own, or in
\* the storage of the input buffer, its cell (0, 0) at (row0, col0) there
Fresh == [shared |-> FALSE]

View(row0, col0) == [shared |-> TRUE, row0 |-> row0, col0 |-> col0]

\* np.concatenate allocates the array it returns
composeStorage(im, m) == Fresh

\* "return output" hands the argument back; "output.data[a:b, c:d]" is basic
\* slicing, which returns a view of output.data
crop_to_contentStorage(out, threshold) ==
    LET rows == OccupiedRows(out.data, threshold)
        cols == OccupiedCols(out.data, threshold)
    IN  IF rows = {} \/ cols = {}
        THEN View(0, 0)
        ELSE View(SetMin(rows), SetMin(cols))

InitAlias ==
    /\ \E h \in 1..MaxCropHeight, w \in 1..MaxCropWidth :
         /\ output \in CompositeImages(h, w)
         /\ image = ImageInput(Uniform(h, w, <<10, 100, 201>>), w, h,
                               "input.png").value
         /\ mask = Mask(Uniform(h, w, MaskScale \div 2), w, h, FALSE).value
    /\ result = NoResult
    /\ op = [name |-> "none"]

StageCrop ==
    \E threshold \in Thresholds :
        /\ result = NoResult
        /\ result' = crop_to_content(output, threshold)
        /\ op' = [name |-> "crop_to_content", source |-> "output",
                  storage |-> crop_to_contentStorage(output, threshold)]
        /\ UNCHANGED <<image, mask, output>>

StageCompose ==
    /\ result = NoResult
    /\ result' = compose(image, mask)
    /\ op' = [name |-> "compose", source |-> "image",
              storage |-> composeStorage(image, mask)]
    /\ UNCHANGED <<image, mask, output>>

\* result.data[y, x] = 0 by the caller that holds the returned image
WriteOutput ==
    /\ op.name \in {"crop_to_content", "compose"}
    /\ result.kind = "ok"
    /\ \E y \in Rows(result.value.data), x \in Cols(result.value.data) :
        /\ result' = [result EXCEPT !.value.data[y][x] = <<0, 0, 0, 0>>]
        /\ output' = IF op.storage.shared /\ op.source = "output"
                     THEN [output EXCEPT
                             !.data[op.storage.row0 + y][op.storage.col0 + x]
                                 = <<0, 0, 0, 0>>]
                     ELSE output
        /\ op' = [name |-> "write_output", stage |-> op.name,
                  before |-> [image |-> image, output |-> output,
                              result |-> result]]
        /\ UNCHANGED <<image, mask>>

\* input.data[y, x] = 0 by the caller that still holds the stage's input
WriteInput ==
    LET source == IF op.source = "output" THEN output ELSE image
    IN  /\ op.name \in {"crop_to_content", "compose"}
        /\ result.kind = "ok"
        /\ \E y \in Rows(source.data), x \in Cols(source.data) :
            /\ output' = IF op.source = "output"
                         THEN [output EXCEPT !.data[y][x] = <<0, 0, 0, 0>>]
                         ELSE output
            /\ image' = IF op.source = "image"
                        THEN [image EXCEPT !.data[y][x] = <<0, 0, 0>>]
                        ELSE image
            /\ result' = IF /\ op.storage.shared
                            /\ y - op.storage.row0 \in Rows(result.value.data)
                            /\ x - op.storage.col0 \in Cols(result.value.data)
                         THEN [result EXCEPT
                                 !.value.data[y - op.storage.row0]
                                             [x - op.storage.col0]
                                     = <<0, 0, 0, 0>>]
                         ELSE result
            /\ op' = [name |-> "write_input", stage |-> op.name,
                      before |-> [image |-> image, output |-> output,
                                  result |-> result]]
            /\ UNCHANGED mask

NextAlias ==
    \/ StageCrop
    \/ StageCompose
    \/ WriteOutput
    \/ WriteInput

SpecAlias == InitAlias /\ [][NextAlias]_vars

-----------------------------------------------------------------------------
(* Specification of RemoveBackgroundUseCase and ReplaceBackgroundUseCase   *)

\* Python's None
None == "None"

UseCases ==
    {"execute", "execute_with_color", "execute_with_image",
     "execute_with_blur"}

ReplaceUseCases == UseCases \ {"execute"}

\* the settings object the use case was constructed with
UseCaseSettings ==
    {Settings(t, 0, 0, c).value : t \in {0, MaskScale \div 2}, c \in BOOLEAN}

\* ImageIO.load_image: the image of the file, or one of the port's errors
LoadOutcomes(images) ==
    {Return(im) : im \in images}
        \cup {Raise("FileNotFoundError"), Raise("InvalidImageError")}

\* BackgroundRemovalEngine.predict_mask: a mask of the image's size, or the
\* port's error
PredictOutcomes(im) ==
    {Return(m) : m \in Masks(im.height, im.width)}
        \cup {Raise("InferenceFailedError")}

\* the crop step runs whatever the flag says
AutoCropEnabledAlways(settings) == TRUE

\* "if self.settings.auto_crop_output:"
AutoCropEnabled(settings) == settings.auto_crop_output

\* step 5 of RemoveBackgroundUseCase.execute
RemoveCropStep(out, settings) ==
    IF AutoCropEnabled(settings)
    THEN LET crop_bounds == get_crop_bounds(out, DefaultThreshold)
             cropped == crop_to_content(out, DefaultThreshold)
         IN  IF cropped.kind = "error"
             THEN cropped
             ELSE Return([output |-> cropped.value, was_cropped |-> TRUE,
                          crop_bounds |-> crop_bounds])
    ELSE Return([output |-> out, was_cropped |-> FALSE,
                 crop_bounds |-> None])

\* an object can be unpacked when its class defines __iter__; the dataclasses
\* of the entities define none
Iterable(v) == "__iter__" \in DOMAIN v

\* "a, b = value"
UnpackPair(r) ==
    IF r.kind = "error" THEN r
    ELSE IF ~Iterable(r.value) THEN Raise("TypeError")
    ELSE IF Len(r.value["__iter__"]) # 2 THEN Raise("ValueError")
    ELSE Return(r.value["__iter__"])

\* step 5 of ReplaceBackgroundUseCase.execute_with_*:
\* "output, crop_bounds = AutoCrop.crop_to_content(output)"
ReplaceCropStep(out, settings) ==
    IF AutoCropEnabled(settings)
    THEN LET pair == UnpackPair(crop_to_content(out, DefaultThreshold))
         IN  IF pair.kind = "error"
             THEN pair
             ELSE Return([output |-> pair.value[1],
                          crop_bounds |-> pair.value[2]])
    ELSE Return([output |-> out, crop_bounds |-> None])

InitUseCase ==
    /\ image = NoImage
    /\ mask = NoMask
    /\ output = NoImage
    /\ result = NoResult
    /\ \E name \in UseCases, settings \in UseCaseSettings :
         op = [name |-> name, pc |-> "load", settings |-> settings,
               steps |-> <<>>, background |-> NoImage,
               processed_mask |-> NoMask, replaced |-> NoImage]

\* a step that raises ends the use case: the exception goes to the caller
Raised(step, r) ==
    /\ result' = r
    /\ op' = [op EXCEPT !.pc = "done", !.steps = Append(@, step)]

\* step 1: image_input = await self.image_io.load_image(image_path)
LoadImage ==
    /\ op.pc = "load"
    /\ \E h \in Heights, w \in Widths :
         \E r \in LoadOutcomes(ImageInputs(h, w)) :
           IF r.kind = "error"
           THEN Raised("load", r) /\ UNCHANGED image
           ELSE /\ image' = r.value
                /\ op' = [op EXCEPT
                            !.pc = IF op.name = "execute_with_image"
                                   THEN "load_background" ELSE "predict",
                            !.steps = Append(@, "load")]
                /\ UNCHANGED result
    /\ UNCHANGED <<mask, output>>

\* background_input = await self.image_io.load_image(background_path)
LoadBackground ==
    /\ op.pc = "load_background"
    /\ \E r \in LoadOutcomes(BackgroundImages) :
         IF r.kind = "error"
         THEN Raised("load_background", r)
         ELSE /\ op' = [op EXCEPT !.pc = "predict", !.background = r.value,
                                  !.steps = Append(@, "load_background")]
              /\ UNCHANGED result
    /\ UNCHANGED <<image, mask, output>>

\* step 2: raw_mask = await self.engine.predict_mask(image_input)
PredictMask ==
    /\ op.pc = "predict"
    /\ \E r \in PredictOutcomes(image) :
         IF r.kind = "error"
         THEN Raised("predict", r) /\ UNCHANGED mask
         ELSE /\ mask' = r.value
              /\ op' = [op EXCEPT !.pc = "refine",
                                  !.steps = Append(@, "predict")]
              /\ UNCHANGED result
    /\ UNCHANGED <<image, output>>

\* step 3: processed_mask = PostProcessMask.apply(raw_mask, self.settings)
RefineMask ==
    /\ op.pc = "refine"
    /\ LET r == apply(mask, op.settings)
       IN  IF r.kind = "error"
           THEN Raised("refine", r)
           ELSE /\ op' = [op EXCEPT
                            !.pc = IF op.name = "execute"
                                   THEN "compose" ELSE "replace",
                            !.processed_mask = r.value,
                            !.steps = Append(@, "refine")]
                /\ UNCHANGED result
    /\ UNCHANGED <<image, mask, output>>

\* step 4 of execute: output = AlphaCompose.compose(image_input,
\* processed_mask)
ComposeRGBA ==
    /\ op.pc = "compose"
    /\ LET r == compose(image, op.processed_mask)
       IN  IF r.kind = "error"
           THEN Raised("compose", r) /\ UNCHANGED output
           ELSE /\ output' = r.value
                /\ op' = [op EXCEPT !.pc = "crop",
                                    !.steps = Append(@, "compose")]
                /\ UNCHANGED result
    /\ UNCHANGED <<image, mask>>

\* step 4 of execute_with_color, execute_with_image and execute_with_blur
ReplaceBackground ==
    /\ op.pc = "replace"
    /\ \E r \in
         CASE op.name = "execute_with_color" ->
                {replace_with_color(image, op.processed_mask, color,
                                    "input.png") : color \in Colors}
           [] op.name = "execute_with_image" ->
                {replace_with_image(image, op.processed_mask, op.background,
                                    resized, "input.png") :
                    resized \in ResizeOutcomes(op.background.data,
                                               image.width, image.height)}
           [] op.name = "execute_with_blur" ->
                {replace_with_blur(image, op.processed_mask, blur_strength,
                                   "input.png") :
                    blur_strength \in {1, 3}} :
         IF r.kind = "error"
         THEN Raised("replace", r) /\ UNCHANGED output
         ELSE /\ output' = r.value
              /\ op' = [op EXCEPT !.pc = "crop", !.replaced = r.value,
                                  !.steps = Append(@, "replace")]
              /\ UNCHANGED result
    /\ UNCHANGED <<image, mask>>

\* step 5 of execute and the return statement
FinishRemove ==
    /\ op.pc = "crop"
    /\ op.name = "execute"
    /\ LET r == RemoveCropStep(output, op.settings)
           steps == IF r.kind = "ok" /\ ~r.value.was_cropped
                    THEN op.steps ELSE Append(op.steps, "crop")
       IN  /\ op' = [op EXCEPT !.pc = "done", !.steps = steps]
           /\ IF r.kind = "error"
              THEN result' = r /\ UNCHANGED output
              ELSE /\ output' = r.value.output
                   /\ result' = Return(
                        [output |-> r.value.output,
                         input_size |-> <<image.width, image.height>>,
                         was_cropped |-> r.value.was_cropped,
                         crop_bounds |-> r.value.crop_bounds,
                         raw_mask |-> mask,
                         original_image |-> image])
    /\ UNCHANGED <<image, mask>>

\* step 5 of execute_with_* and the return statement
FinishReplace ==
    /\ op.pc = "crop"
    /\ op.name \in ReplaceUseCases
    /\ LET r == ReplaceCropStep(output, op.settings)
           steps == IF AutoCropEnabled(op.settings)
                    THEN Append(op.steps, "crop") ELSE op.steps
       IN  /\ op' = [op EXCEPT !.pc = "done", !.steps = steps]
           /\ IF r.kind = "error"
              THEN result' = r /\ UNCHANGED output
              ELSE /\ output' = r.value.output
                   /\ result' = Return([output |-> r.value.output,
                                        crop_bounds |-> r.value.crop_bounds])
    /\ UNCHANGED <<image, mask>>

NextUseCase ==
    \/ LoadImage
    \/ LoadBackground
    \/ PredictMask
    \/ RefineMask
    \/ ComposeRGBA
    \/ ReplaceBackground
    \/ FinishRemove
    \/ FinishReplace

SpecUseCase == InitUseCase /\ [][NextUseCase]_vars

-----------------------------------------------------------------------------
(* Specification of BatchProcessUseCase                                    *)

\* the dataclass BatchProgress
BatchProgress(total, completed, failed, current_file) ==
    [total |-> total, completed |-> completed, failed |-> failed,
     current_file |-> current_file]

\* the dataclass BatchResult
BatchResult(total, successful, failed, results, errors) ==
    [total |-> total, successful |-> successful, failed |-> failed,
     results |-> results, errors |-> errors]

\* what _process_single does for a path: it returns the RemoveBackgroundResult
\* of the image or raises what loading, inference or saving raised
ProcessOutcomes(image_path) ==
    {Return([original_path |-> image_path]), Raise("FileNotFoundError")}

\* the progress report counts the path it is about as done
ReportProgressCounted(b, image_path) ==
    BatchProgress(b.total, b.completed + 1, b.failed, image_path)

\* "progress = BatchProgress(total = total, completed = completed, ...)"
ReportProgress(b, image_path) ==
    BatchProgress(b.total, b.completed, b.failed, image_path)

\* a failure is counted but not listed
CollectResultCountsOnly(b, image_path, r) ==
    IF r.kind = "ok"
    THEN [b EXCEPT !.results = Append(@, r.value), !.completed = @ + 1]
    ELSE [b EXCEPT !.failed = @ + 1]

\* the try / except around future.result()
CollectResult(b, image_path, r) ==
    IF r.kind = "ok"
    THEN [b EXCEPT !.results = Append(@, r.value), !.completed = @ + 1]
    ELSE [b EXCEPT !.errors = Append(@, <<image_path, r.error>>),
                   !.failed = @ + 1]

Running(futures) ==
    {k \in DOMAIN futures : futures[k].state = "running"}

\* execute up to the with statement
InitBatch ==
    /\ image = NoImage
    /\ mask = NoMask
    /\ output = NoImage
    /\ result = NoResult
    /\ \E n \in 0..MaxPaths, max_workers \in 1..MaxWorkers,
          progress_callback \in BOOLEAN :
         op = [name |-> "batch", pc |-> "submit",
               image_paths |-> [k \in 1..n |-> k],
               max_workers |-> max_workers,
               progress_callback |-> progress_callback,
               futures |-> <<>>, i |-> 1,
               total |-> n, completed |-> 0, failed |-> 0,
               results |-> <<>>, errors |-> <<>>,
               progress |-> <<>>, events |-> <<>>]

\* one round of "for image_path in image_paths: executor.submit(...)"
Submit ==
    /\ op.pc = "submit"
    /\ IF Len(op.futures) < Len(op.image_paths)
       THEN op' = [op EXCEPT !.futures =
                      Append(@, [state |-> "pending", outcome |-> NoResult])]
       ELSE op' = [op EXCEPT !.pc = "progress"]
    /\ UNCHANGED <<image, mask, output, result>>

\* a free worker thread of the pool takes the oldest queued call
StartWork ==
    /\ op.name = "batch"
    /\ \E k \in DOMAIN op.futures :
         /\ op.futures[k].state = "pending"
         /\ \A j \in 1..(k - 1) : op.futures[j].state # "pending"
         /\ Cardinality(Running(op.futures)) < op.max_workers
         /\ op' = [op EXCEPT !.futures[k].state = "running"]
    /\ UNCHANGED <<image, mask, output, result>>

\* _process_single returns or raises in its worker thread
FinishWork ==
    /\ op.name = "batch"
    /\ \E k \in Running(op.futures) :
         \E r \in ProcessOutcomes(op.image_paths[k]) :
           op' = [op EXCEPT !.futures[k] = [state |-> "done", outcome |-> r]]
    /\ UNCHANGED <<image, mask, output, result>>

\* "if progress_callback: ... await progress_callback(progress)"
Progress ==
    /\ op.pc = "progress"
    /\ IF op.i > Len(op.image_paths)
       THEN op' = [op EXCEPT !.pc = "return"]
       ELSE IF op.progress_callback
       THEN op' = [op EXCEPT
                     !.pc = "result",
                     !.progress =
                         Append(@, ReportProgress(op, op.image_paths[op.i])),
                     !.events =
                         Append(@, <<"progress", op.image_paths[op.i]>>)]
       ELSE op' = [op EXCEPT !.pc = "result"]
    /\ UNCHANGED <<image, mask, output, result>>

\* "result = future.result()" waits for the future, then the call's outcome
\* is collected
Collect ==
    /\ op.pc = "result"
    /\ op.futures[op.i].state = "done"
    /\ LET collected == CollectResult(op, op.image_paths[op.i],
                                      op.futures[op.i].outcome)
       IN  op' = [collected EXCEPT
                    !.pc = "progress", !.i = @ + 1,
                    !.events = Append(@, <<"collect", op.image_paths[op.i]>>)]
    /\ UNCHANGED <<image, mask, output, result>>

\* "return BatchResult(...)"
ReturnBatch ==
    /\ op.pc = "return"
    /\ result' = Return(BatchResult(op.total, op.completed, op.failed,
                                    op.results, op.errors))
    /\ op' = [op EXCEPT !.pc = "done"]
    /\ UNCHANGED <<image, mask, output>>

NextBatch ==
    \/ Submit
    \/ StartWork
    \/ FinishWork
    \/ Progress
    \/ Collect
    \/ ReturnBatch

SpecBatch == InitBatch /\ [][NextBatch]_vars

-----------------------------------------------------------------------------
(* Specification of OnnxBiRefNetEngine shared by worker threads            *)

Threads == 1..MaxThreads

\* after __init__: is_warmed_up = False, no inference has run
InitEngine ==
    /\ image = NoImage
    /\ mask = NoMask
    /\ output = NoImage
    /\ result = NoResult
    /\ op = [name |-> "engine", is_warmed_up |-> FALSE,
             pc |-> [t \in Threads |-> "idle"],
             calls |-> [t \in Threads |-> 0],
             returned |-> [t \in Threads |-> NoResult],
             warmups |-> 0, inferences |-> 0, late_warmups |-> 0]

\* a thread enters remove_background: "if not self.is_warmed_up:"
CallRemoveBackground ==
    /\ \E t \in Threads :
         /\ op.pc[t] = "idle"
         /\ op.calls[t] < MaxCalls
         /\ op' = [op EXCEPT
                     !.calls[t] = @ + 1,
                     !.pc[t] = IF op.is_warmed_up
                               THEN "inference" ELSE "warmup"]
    /\ UNCHANGED <<image, mask, output, result>>

\* _warmup: "if self.is_warmed_up: return"
EnterWarmup ==
    /\ \E t \in Threads :
         /\ op.pc[t] = "warmup"
         /\ op' = [op EXCEPT
                     !.pc[t] = IF op.is_warmed_up
                               THEN "inference" ELSE "dummy"]
    /\ UNCHANGED <<image, mask, output, result>>

\* _warmup: the dummy session.run succeeds or raises; the except clause only
\* logs the exception
DummyInference ==
    /\ \E t \in Threads, succeeds \in BOOLEAN :
         /\ op.pc[t] = "dummy"
         /\ op' = IF succeeds
                  THEN [op EXCEPT
                          !.pc[t] = "set_flag",
                          !.warmups = @ + 1,
                          !.late_warmups =
                              IF op.inferences > 0 THEN @ + 1 ELSE @]
                  ELSE [op EXCEPT !.pc[t] = "inference"]
    /\ UNCHANGED <<image, mask, output, result>>

\* _warmup: "self.is_warmed_up = True"
SetWarmedUp ==
    /\ \E t \in Threads :
         /\ op.pc[t] = "set_flag"
         /\ op' = [op EXCEPT !.is_warmed_up = TRUE, !.pc[t] = "inference"]
    /\ UNCHANGED <<image, mask, output, result>>

\* remove_background: the real session.run, then the Mask is returned or
\* InferenceFailedError raised
Inference ==
    /\ \E t \in Threads :
         \E r \in {Return("Mask"), Raise("InferenceFailedError")} :
           /\ op.pc[t] = "inference"
           /\ op' = [op EXCEPT !.pc[t] = "idle", !.returned[t] = r,
                               !.inferences = @ + 1]
    /\ UNCHANGED <<image, mask, output, result>>

NextEngine ==
    \/ CallRemoveBackground
    \/ EnterWarmup
    \/ DummyInference
    \/ SetWarmedUp
    \/ Inference

SpecEngine == InitEngine /\ [][NextEngine]_vars

-----------------------------------------------------------------------------
(* Specification of concurrent invocations of PostProcessMask.apply        *)

\* the masks the invocations work on: 1 x 2 buffers
WorkerMasks ==
    {Mask([y \in {0} |-> [x \in {0, 1} |-> d[x + 1]]], 2, 1, FALSE).value :
        d \in {<<MaskScale, 0>>, <<MaskScale \div 2, MaskScale>>,
               <<MaskScale, MaskScale>>}}

WorkerSettings ==
    {Settings(t, s, f, FALSE).value :
        t \in {0, MaskScale \div 2}, s \in {0, 1}, f \in {0, 1}}

\* all invocations keep processed_data in one place
FrameShared(w) == 1

\* processed_data is a local variable: each invocation has its own frame
Frame(w) == w

InitWorkers ==
    /\ image = NoImage
    /\ mask = NoMask
    /\ output = NoImage
    /\ result = NoResult
    /\ \E settings \in WorkerSettings, input \in [Threads -> WorkerMasks] :
         op = [name |-> "workers", settings |-> settings, input |-> input,
               pc |-> [w \in Threads |-> "copy"],
               processed_data |-> [w \in Threads |-> <<>>],
               returned |-> [w \in Threads |-> NoResult]]

\* processed_data = mask.data.copy()
CopyData ==
    /\ op.name = "workers"
    /\ \E w \in Threads :
         /\ op.pc[w] = "copy"
         /\ op' = [op EXCEPT !.pc[w] = "threshold",
                             !.processed_data[Frame(w)] = op.input[w].data]
    /\ UNCHANGED <<image, mask, output, result>>

\* step 1 of apply
Threshold ==
    /\ op.name = "workers"
    /\ \E w \in Threads :
         /\ op.pc[w] = "threshold"
         /\ op' = [op EXCEPT
                     !.pc[w] = "smooth",
                     !.processed_data[Frame(w)] =
                         ThresholdStep(op.processed_data[Frame(w)],
                                       op.input[w].is_binary,
                                       op.settings.threshold)]
    /\ UNCHANGED <<image, mask, output, result>>

\* step 2 of apply
Smooth ==
    /\ op.name = "workers"
    /\ \E w \in Threads :
         /\ op.pc[w] = "smooth"
         /\ op' = [op EXCEPT
                     !.pc[w] = "feather",
                     !.processed_data[Frame(w)] =
                         SmoothStep(op.processed_data[Frame(w)],
                                    op.settings.smooth_pixels)]
    /\ UNCHANGED <<image, mask, output, result>>

\* step 3 of apply
Feather ==
    /\ op.name = "workers"
    /\ \E w \in Threads :
         /\ op.pc[w] = "feather"
         /\ LET r == FeatherStep(op.processed_data[Frame(w)],
                                 op.settings.feather_pixels)
            IN  op' = IF r.kind = "error"
                      THEN [op EXCEPT !.pc[w] = "done", !.returned[w] = r]
                      ELSE [op EXCEPT !.pc[w] = "return",
                                      !.processed_data[Frame(w)] = r.value]
    /\ UNCHANGED <<image, mask, output, result>>

\* return Mask(data = processed_data, ..., is_binary = False)
ReturnMask ==
    /\ op.name = "workers"
    /\ \E w \in Threads :
         /\ op.pc[w] = "return"
         /\ op' = [op EXCEPT
                     !.pc[w] = "done",
                     !.returned[w] = Mask(op.processed_data[Frame(w)],
                                          op.input[w].width,
                                          op.input[w].height, FALSE)]
    /\ UNCHANGED <<image, mask, output, result>>

NextWorkers ==
    \/ CopyData
    \/ Threshold
    \/ Smooth
    \/ Feather
    \/ ReturnMask

SpecWorkers == InitWorkers /\ [][NextWorkers]_vars

-----------------------------------------------------------------------------
(* Properties                                                              *)

DimsMatch == mask.height = image.height /\ mask.width = image.width

ReplaceOps == {"replace_with_color", "replace_with_image", "replace_with_blur"}

\* round(f) of a fixed-point value, to the nearest integer (halves to even)
RoundNearest(f) ==
    LET q == f \div MaskScale
        r == f % MaskScale
    IN  IF 2 * r > MaskScale \/ (2 * r = MaskScale /\ q % 2 = 1)
        THEN q + 1 ELSE q

\* C1: at every pixel the alpha channel of compose(image, mask) is
\* round(clamp(mask value, 0, 1) * 255), the nearest integer.
C1_ComposeAlphaIsRounded ==
    (op.name = "compose" /\ result.kind = "ok") =>
        \A y \in Rows(image.data), x \in Cols(image.data) :
            result.value.data[y][x][4]
                = RoundNearest(Clip(mask.data[y][x], 0, MaskScale) * 255)

\* C2: compose copies the three colour channels of every pixel unchanged,
\* whatever the mask value, keeps the width and the height of the image, and
\* gives alpha 0 where the mask is 0.0 and alpha 255 where it is 1.0.
C2_ComposeKeepsColour ==
    (op.name = "compose" /\ DimsMatch) =>
        /\ result.kind = "ok"
        /\ result.value.width = image.width
        /\ result.value.height = image.height
        /\ Shape(result.value.data) = <<image.height, image.width>>
        /\ \A y \in Rows(image.data), x \in Cols(image.data) :
             /\ SubSeq(result.value.data[y][x], 1, 3) = image.data[y][x]
             /\ mask.data[y][x] = 0 => result.value.data[y][x][4] = 0
             /\ mask.data[y][x] = MaskScale
                  => result.value.data[y][x][4] = 255

C2_Witness ==
    /\ op.name = "compose"
    /\ result.kind = "ok"
    /\ \E y \in Rows(image.data), x \in Cols(image.data) :
         /\ mask.data[y][x] = 0
         /\ image.data[y][x] = <<10, 100, 201>>
         /\ result.value.data[y][x] = <<10, 100, 201, 0>>
    /\ \E y \in Rows(image.data), x \in Cols(image.data) :
         /\ mask.data[y][x] = MaskScale
         /\ result.value.data[y][x] = <<255, 255, 255, 255>>

\* C3: compose and the three replace operations raise an error and return no
\* image whenever the mask's height or width differs from the image's, and
\* raise no dimension error whenever they agree.
C3_DimensionMismatchRaises ==
    (op.name \in ReplaceOps \cup {"compose"}) =>
        /\ ~DimsMatch => result = Raise("ValueError")
        /\ DimsMatch => result # Raise("ValueError")

C3_Witness ==
    /\ op.name = "replace_with_color"
    /\ mask.height = image.height
    /\ mask.width = 1
    /\ image.width = 2
    /\ result = Raise("ValueError")

\* C4: the output of replace_with_color, replace_with_image and
\* replace_with_blur has alpha 255 at every pixel, whatever the mask holds.
C4_ReplaceOutputOpaque ==
    (op.name \in ReplaceOps /\ result.kind = "ok") =>
        \A y \in Rows(result.value.data), x \in Cols(result.value.data) :
            result.value.data[y][x][4] = 255

C4_Witness ==
    /\ op.name \in ReplaceOps
    /\ result.kind = "ok"
    /\ \E y \in Rows(mask.data), x \in Cols(mask.data) :
         /\ mask.data[y][x] = 0
         /\ result.value.data[y][x][4] = 255
    /\ \E y \in Rows(mask.data), x \in Cols(mask.data) :
         mask.data[y][x] = MaskScale \div 2

\* C5: every channel of the output of replace_with_color is
\* image * alpha + color * (1 - alpha), clamped to [0, 255] and rounded to the
\* nearest integer.
C5_ReplaceColorIsRounded ==
    (op.name = "replace_with_color" /\ result.kind = "ok") =>
        \A y \in Rows(image.data), x \in Cols(image.data), c \in 1..3 :
            result.value.data[y][x][c]
                = RoundNearest(Clip(
                      image.data[y][x][c] * mask.data[y][x]
                        + op.color[c] * (MaskScale - mask.data[y][x]),
                      0, 255 * MaskScale))

\* C6: with a mask that is 0.0 at every pixel, replace_with_color returns
\* the chosen colour in the colour channels of every pixel and alpha 255.
C6_ZeroMaskGivesColor ==
    (/\ op.name = "replace_with_color"
     /\ DimsMatch
     /\ \A y \in Rows(mask.data), x \in Cols(mask.data) : mask.data[y][x] = 0)
    => /\ result.kind = "ok"
       /\ Shape(result.value.data) = <<image.height, image.width>>
       /\ \A y \in Rows(image.data), x \in Cols(image.data) :
            result.value.data[y][x] = op.color \o <<255>>

C6_Witness ==
    /\ op.name = "replace_with_color"
    /\ op.color = <<0, 128, 255>>
    /\ result.kind = "ok"
    /\ \A y \in Rows(mask.data), x \in Cols(mask.data) : mask.data[y][x] = 0
    /\ \E y \in Rows(image.data), x \in Cols(image.data) :
         /\ image.data[y][x] = <<10, 100, 201>>
         /\ result.value.data[y][x] = <<0, 128, 255, 255>>

\* C7: replace_with_image takes a background of any size: a background whose
\* (height, width) differs from the image's is resized to the image's size
\* before the blend, one of the same size is blended as it is, and in both
\* cases the call raises no error and the output has the image's size.
C7_BackgroundIsResized ==
    (op.name = "replace_with_image" /\ DimsMatch) =>
        LET bg == op.background_image
            same == <<bg.height, bg.width>> = <<image.height, image.width>>
        IN  /\ same => op.bg_data = bg.data
            /\ ~same => op.bg_data \in ResizeOutcomes(bg.data, image.width,
                                                      image.height)
            /\ Shape(op.bg_data) = <<image.height, image.width>>
            /\ result.kind = "ok"
            /\ result.value.width = image.width
            /\ result.value.height = image.height
            /\ Shape(result.value.data) = <<image.height, image.width>>

C7_Witness ==
    /\ op.name = "replace_with_image"
    /\ op.background_image.height = MaxHeight
    /\ op.background_image.width = MaxWidth
    /\ image.height = 1
    /\ result.kind = "ok"
    /\ result.value.height = 1
    /\ result.value.width = image.width

\* C8: for a non-negative blur_strength the Gaussian kernel size used by
\* replace_with_blur is blur_strength when that is odd and blur_strength + 1
\* when it is even, hence odd and positive, and the blur does not fail.
C8_KernelIsOdd ==
    (op.name = "replace_with_blur" /\ DimsMatch) =>
        /\ op.ksize = IF op.blur_strength % 2 = 1
                      THEN op.blur_strength ELSE op.blur_strength + 1
        /\ op.ksize % 2 = 1
        /\ op.ksize > 0
        /\ result.kind = "ok"

C8_Witness ==
    /\ op.name = "replace_with_blur"
    /\ op.blur_strength = 0
    /\ op.ksize = 1
    /\ result.kind = "ok"

\* C9: when some pixel has alpha >= threshold, get_crop_bounds returns
\* (x, y, width, height) with y and y + height - 1 the first and last rows
\* and x and x + width - 1 the first and last columns holding such a pixel:
\* every such pixel lies in the rectangle and each of its four border lines
\* holds one.
C9_BoundsAreTight ==
    (/\ op.name = "get_crop_bounds"
     /\ \E r \in Rows(output.data), c \in Cols(output.data) :
          output.data[r][c][4] >= op.threshold)
    => LET x == result.value[1]
           y == result.value[2]
           w == result.value[3]
           h == result.value[4]
           opaque(r, c) == output.data[r][c][4] >= op.threshold
       IN  /\ \A r \in Rows(output.data), c \in Cols(output.data) :
                opaque(r, c) => /\ y <= r /\ r <= y + h - 1
                                /\ x <= c /\ c <= x + w - 1
           /\ \E c \in Cols(output.data) : opaque(y, c)
           /\ \E c \in Cols(output.data) : opaque(y + h - 1, c)
           /\ \E r \in Rows(output.data) : opaque(r, x)
           /\ \E r \in Rows(output.data) : opaque(r, x + w - 1)

C9_Witness ==
    /\ op.name = "get_crop_bounds"
    /\ op.threshold = DefaultThreshold
    /\ output.height = 2
    /\ output.width = 3
    /\ result.value = <<1, 0, 2, 2>>
    /\ output.data[0][2][4] < op.threshold
    /\ output.data[1][1][4] < op.threshold

\* C10: crop_to_content applied to the result of crop_to_content with the
\* same threshold returns an image of the same width, height and pixel data.
C10_CropIsIdempotent ==
    (op.name = "crop_again") =>
        /\ result.kind = "ok"
        /\ result.value.width = output.width
        /\ result.value.height = output.height
        /\ result.value.data = output.data

C10_Witness ==
    /\ op.name = "crop_again"
    /\ op.threshold = DefaultThreshold
    /\ result.kind = "ok"
    /\ output.height = 2
    /\ output.width = 2
    /\ output.data[0][0][4] < op.threshold
    /\ output.data[0][0][2] = 32
    /\ result.value.data = output.data

\* C11: when no pixel has alpha >= threshold, get_crop_bounds returns
\* (0, 0, W, H) and crop_to_content returns the image with its width, height
\* and pixel data unchanged.
C11_TransparentIsKept ==
    (/\ op.name \in {"get_crop_bounds", "crop_to_content"}
     /\ \A r \in Rows(output.data), c \in Cols(output.data) :
          output.data[r][c][4] < op.threshold)
    => /\ op.name = "get_crop_bounds"
            => result.value = <<0, 0, output.width, output.height>>
       /\ op.name = "crop_to_content"
            => /\ result.kind = "ok"
               /\ result.value.width = output.width
               /\ result.value.height = output.height
               /\ result.value.data = output.data

C11_Witness ==
    /\ op.name = "get_crop_bounds"
    /\ op.threshold = DefaultThreshold
    /\ output.height = 2
    /\ output.width = 3
    /\ \A r \in Rows(output.data), c \in Cols(output.data) :
         output.data[r][c][4] = DefaultThreshold - 1
    /\ result.value = <<0, 0, 3, 2>>

InRange(data) ==
    \A y \in Rows(data), x \in Cols(data) :
        0 <= data[y][x] /\ data[y][x] <= MaskScale

\* C13: with threshold = 0, smooth_pixels = 0 and feather_pixels = 0, apply
\* returns a Mask of the same width and height with exactly the input's value
\* at every pixel, and is_binary false.
C13_ApplyIsIdentity ==
    (/\ op.name = "apply"
     /\ op.settings.threshold = 0
     /\ op.settings.smooth_pixels = 0
     /\ op.settings.feather_pixels = 0)
    => /\ result.kind = "ok"
       /\ result.value.width = op.input.width
       /\ result.value.height = op.input.height
       /\ result.value.data = op.input.data
       /\ result.value.is_binary = FALSE

C13_Witness ==
    /\ op.name = "apply"
    /\ op.settings.threshold = 0
    /\ op.settings.smooth_pixels = 0
    /\ op.settings.feather_pixels = 0
    /\ op.input.is_binary
    /\ op.input.height = 2
    /\ op.input.data[0][0] = MaskScale \div 2
    /\ op.input.data[1][0] = MaskScale \div 5
    /\ result.kind = "ok"
    /\ result.value.data[0][0] = MaskScale \div 2
    /\ result.value.data[1][0] = MaskScale \div 5

\* C14: with smooth_pixels = 0 and feather_pixels = 0, an input that is not
\* binary and a threshold > 0 give 1.0 where the input value is >= threshold
\* (equality included) and 0.0 elsewhere; a binary input or a threshold <= 0
\* gives the input values back.
C14_ThresholdIsHardCut ==
    (/\ op.name = "apply"
     /\ op.settings.smooth_pixels = 0
     /\ op.settings.feather_pixels = 0)
    => /\ result.kind = "ok"
       /\ Shape(result.value.data) = Shape(op.input.data)
       /\ \A y \in Rows(op.input.data), x \in Cols(op.input.data) :
            result.value.data[y][x] =
                IF ~op.input.is_binary /\ op.settings.threshold > 0
                THEN (IF op.input.data[y][x] >= op.settings.threshold
                      THEN MaskScale ELSE 0)
                ELSE op.input.data[y][x]

C14_Witness ==
    /\ op.name = "apply"
    /\ op.settings.smooth_pixels = 0
    /\ op.settings.feather_pixels = 0
    /\ op.settings.threshold = MaskScale \div 2
    /\ ~op.input.is_binary
    /\ op.input.width = 2
    /\ op.input.data[0][0] = MaskScale \div 2
    /\ op.input.data[0][1] = MaskScale \div 5
    /\ result.kind = "ok"
    /\ result.value.data[0][0] = MaskScale
    /\ result.value.data[0][1] = 0

\* C15: whatever the input's is_binary flag and the settings, apply returns a
\* Mask with is_binary false and leaves the input Mask as it was.
C15_ResultIsNeverBinary ==
    (op.name = "apply") =>
        /\ result.kind = "ok"
        /\ result.value.is_binary = FALSE
        /\ mask = op.input

C15_Witness ==
    /\ op.name = "apply"
    /\ op.input.is_binary
    /\ op.settings.threshold = MaskScale \div 2
    /\ op.settings.smooth_pixels = 1
    /\ op.settings.feather_pixels = 0
    /\ result.kind = "ok"
    /\ result.value.is_binary = FALSE
    /\ mask = op.input

C17_ExportBinary ==
    (op.name = "export_as_binary") =>
        /\ result.kind = "ok"
        /\ result.value.width = mask.width
        /\ result.value.height = mask.height
        /\ Shape(result.value.data) = Shape(mask.data)
        /\ \A y \in Rows(mask.data), x \in Cols(mask.data) :
             result.value.data[y][x] =
                 IF mask.data[y][x] >= op.threshold
                 THEN <<255, 255, 255, 255>> ELSE <<0, 0, 0, 255>>

\* C18: export_as_grayscale returns, without raising, an image of the mask's
\* size with R = G = B = the mask value scaled to 0..255 and alpha 255.
C18_ExportGrayscale ==
    (op.name = "export_as_grayscale") =>
        /\ result.kind = "ok"
        /\ result.value.width = mask.width
        /\ result.value.height = mask.height
        /\ Shape(result.value.data) = Shape(mask.data)
        /\ \A y \in Rows(mask.data), x \in Cols(mask.data) :
             \E g \in {(mask.data[y][x] * 255) \div MaskScale,
                       RoundNearest(mask.data[y][x] * 255)} :
                 result.value.data[y][x] = <<g, g, g, 255>>

\* C19: export_as_alpha_only returns, without raising, an image of the
\* mask's size with R = G = B = 255 and the mask value scaled to 0..255 in
\* the alpha channel.
C19_ExportAlphaOnly ==
    (op.name = "export_as_alpha_only") =>
        /\ result.kind = "ok"
        /\ result.value.width = mask.width
        /\ result.value.height = mask.height
        /\ Shape(result.value.data) = Shape(mask.data)
        /\ \A y \in Rows(mask.data), x \in Cols(mask.data) :
             \E a \in {(mask.data[y][x] * 255) \div MaskScale,
                       RoundNearest(mask.data[y][x] * 255)} :
                 result.value.data[y][x] = <<255, 255, 255, a>>

\* C20: a mask on the 0..255 scale can be constructed as a Mask, and each of
\* the three exporters returns for it the same image as for the same mask on
\* the 0..1 scale.
C20_ScaleIsDetected ==
    (/\ op.name = "Mask"
     /\ Shape(op.data) = <<op.height, op.width>>
     /\ \A y \in Rows(op.data), x \in Cols(op.data) :
          /\ 0 <= op.data[y][x]
          /\ op.data[y][x] <= 255 * MaskScale
          /\ op.data[y][x] % 255 = 0)
    => LET scaled == [data |-> op.data, width |-> op.width,
                      height |-> op.height, is_binary |-> FALSE]
           unit == [scaled EXCEPT !.data =
                       [y \in Rows(op.data) |-> [x \in Cols(op.data) |->
                           op.data[y][x] \div 255]]]
       IN  /\ result.kind = "ok"
           /\ export_as_grayscale(scaled) = export_as_grayscale(unit)
           /\ export_as_alpha_only(scaled) = export_as_alpha_only(unit)
           /\ \A t \in ExportThresholds :
                export_as_binary(scaled, t) = export_as_binary(unit, t)

\* C12: the buffer of the image a stage returns shares no storage with the
\* stage's input: writing a pixel of the result leaves the input as it was,
\* and writing a pixel of the input leaves the result as it was.
C12_NoSharedBuffers ==
    /\ (op.name = "write_output") =>
          /\ output = op.before.output
          /\ image = op.before.image
    /\ (op.name = "write_input") => result = op.before.result

\* C30: with (x, y, w, h) = get_crop_bounds(img, t), crop_to_content(img, t)
\* is w wide and h high, its pixel (i, j) is img's pixel (y + i, x + j), it
\* is never empty, and the rectangle lies within img.
C30_CropMatchesBounds ==
    (op.name = "crop_to_content") =>
        LET bounds == get_crop_bounds(output, op.threshold)
            x == bounds[1]
            y == bounds[2]
            w == bounds[3]
            h == bounds[4]
        IN  /\ result.kind = "ok"
            /\ result.value.width = w
            /\ result.value.height = h
            /\ Shape(result.value.data) = <<h, w>>
            /\ \A i \in 0..(h - 1), j \in 0..(w - 1) :
                 result.value.data[i][j] = output.data[y + i][x + j]
            /\ 1 <= w /\ w <= output.width
            /\ 1 <= h /\ h <= output.height
            /\ x + w <= output.width
            /\ y + h <= output.height

C30_Witness ==
    /\ op.name = "crop_to_content"
    /\ op.threshold = DefaultThreshold
    /\ output.width = 3
    /\ output.height = 2
    /\ get_crop_bounds(output, op.threshold) = <<1, 1, 2, 1>>
    /\ result.kind = "ok"
    /\ result.value.width = 2
    /\ result.value.height = 1
    /\ result.value.data[0][0] = output.data[1][1]
    /\ result.value.data[0][1] = output.data[1][2]

\* C22: apply is thresholding, then opening, then closing, then feathering,
\* each on the output of the step before and each disabled step (binary input
\* or threshold <= 0, smooth_pixels = 0, feather_pixels = 0) the identity.
C22_StepsRunInOrder ==
    (op.name = "apply") =>
        LET m == op.input
            settings == op.settings
            kernel == StructuringElement(settings.smooth_pixels * 2 + 1)
            thresholded ==
                IF ~m.is_binary /\ settings.threshold > 0
                THEN [y \in Rows(m.data) |-> [x \in Cols(m.data) |->
                         IF m.data[y][x] >= settings.threshold
                         THEN MaskScale ELSE 0]]
                ELSE m.data
            opened == MorphOpen(ToUint8(thresholded), kernel)
            closed == MorphClose(opened, kernel)
            smoothed == IF settings.smooth_pixels > 0
                        THEN FromUint8(closed) ELSE thresholded
            blurred == GaussianBlur2D(ToUint8(smoothed),
                                      settings.feather_pixels * 2 + 1)
            feathered == IF settings.feather_pixels > 0
                         THEN FromUint8(blurred.value) ELSE smoothed
        IN  /\ result.kind = "ok"
            /\ result.value.data = feathered

C22_Witness ==
    /\ op.name = "apply"
    /\ ~op.input.is_binary
    /\ op.settings.threshold = MaskScale \div 2
    /\ op.settings.smooth_pixels = 1
    /\ op.settings.feather_pixels = 1
    /\ op.input.height = 1
    /\ op.input.width = 2
    /\ op.input.data[0][0] = MaskScale \div 2
    /\ op.input.data[0][1] = MaskScale \div 5
    /\ result.kind = "ok"
    /\ result.value.data = Uniform(1, 2, 0)

\* the cells of a 2-D buffer that hold the value v
CellsWith(data, v) ==
    {p \in Rows(data) \X Cols(data) : data[p[1]][p[2]] = v}

Adjacent(p, q) ==
    \/ p[1] = q[1] /\ (p[2] - q[2]) \in {-1, 1}
    \/ p[2] = q[2] /\ (p[1] - q[1]) \in {-1, 1}

RECURSIVE Grow(_, _)
Grow(S, region) ==
    LET next == region \cup {q \in S : \E p \in region : Adjacent(p, q)}
    IN  IF next = region THEN region ELSE Grow(S, next)

\* the 4-connected region of S that p lies in
Region(S, p) == Grow(S, {p})

\* some placement of the structuring element lies within S
Holds(S, kernel) ==
    \E c \in S : \A o \in kernel : <<c[1] + o[1], c[2] + o[2]>> \in S

\* no cell of S is on the border of the buffer
Enclosed(S, data) ==
    \A p \in S : /\ p[1] - 1 \in Rows(data) /\ p[1] + 1 \in Rows(data)
                 /\ p[2] - 1 \in Cols(data) /\ p[2] + 1 \in Cols(data)

\* C23: with smooth_pixels = r > 0 and feather_pixels = 0 on a 0/1 mask, no
\* pixel of a foreground region smaller than the disk of diameter 2r + 1 is
\* left in the output and every enclosed background hole smaller than the
\* disk is filled, wherever the region lies, the image border included.
C23_SmallRegionsAreRemoved ==
    (/\ op.name = "apply"
     /\ op.settings.smooth_pixels > 0
     /\ op.settings.feather_pixels = 0
     /\ \A p \in Rows(op.input.data) \X Cols(op.input.data) :
          op.input.data[p[1]][p[2]] \in {0, MaskScale})
    => LET kernel == StructuringElement(op.settings.smooth_pixels * 2 + 1)
           foreground == CellsWith(op.input.data, MaskScale)
           background == CellsWith(op.input.data, 0)
       IN  /\ result.kind = "ok"
           /\ \A p \in foreground :
                ~Holds(Region(foreground, p), kernel)
                    => result.value.data[p[1]][p[2]] = 0
           /\ \A p \in background :
                (/\ Enclosed(Region(background, p), op.input.data)
                 /\ ~Holds(Region(background, p), kernel))
                    => result.value.data[p[1]][p[2]] = MaskScale

\* C24: for a valid Mask and Settings with threshold in [0, 1], smooth_pixels
\* >= 0 and feather_pixels >= 0, apply returns without an error a Mask of the
\* input's width and height whose values all lie in [0, 1].
C24_ApplyNeverFails ==
    (op.name = "apply") =>
        /\ result.kind = "ok"
        /\ result.value.width = op.input.width
        /\ result.value.height = op.input.height
        /\ Shape(result.value.data) = <<op.input.height, op.input.width>>
        /\ InRange(result.value.data)

C24_Witness ==
    /\ op.name = "apply"
    /\ op.settings.threshold = MaskScale
    /\ op.settings.smooth_pixels = 0
    /\ op.settings.feather_pixels = 1
    /\ op.input.height = 2
    /\ op.input.width = 2
    /\ op.input.data[0][0] = MaskScale
    /\ op.input.data[1][1] = MaskScale \div 2
    /\ result.kind = "ok"
    /\ result.value.data[0][0] > 0
    /\ result.value.data[0][0] < MaskScale
    /\ InRange(result.value.data)

IsPrefix(s, t) == Len(s) <= Len(t) /\ s = SubSeq(t, 1, Len(s))

\* C25: execute runs load, predict, refine, compose and then the cropper, the
\* cropper if and only if auto_crop_output is set: without the flag the
\* output is the composed image, was_cropped is false and crop_bounds is
\* None, with it the output is crop_to_content of the composed image; when
\* loading or inference fails no later step runs and the error is the outcome.
C25_RemoveStepsInOrder ==
    (op.name = "execute") =>
        /\ IsPrefix(op.steps,
                    <<"load", "predict", "refine", "compose", "crop">>)
        /\ (op.pc = "done" /\ result.kind = "ok") =>
              LET refined == apply(mask, op.settings)
                  composed == compose(image, refined.value)
              IN  IF op.settings.auto_crop_output
                  THEN /\ op.steps = <<"load", "predict", "refine",
                                       "compose", "crop">>
                       /\ Return(result.value.output) =
                              crop_to_content(composed.value,
                                              DefaultThreshold)
                  ELSE /\ op.steps = <<"load", "predict", "refine",
                                       "compose">>
                       /\ result.value.output = composed.value
                       /\ result.value.was_cropped = FALSE
                       /\ result.value.crop_bounds = None
        /\ (op.pc = "done" /\ result.kind = "error") =>
              \/ /\ result.error \in {"FileNotFoundError",
                                      "InvalidImageError"}
                 /\ op.steps = <<"load">>
              \/ /\ result.error = "InferenceFailedError"
                 /\ op.steps = <<"load", "predict">>

C25_Witness ==
    /\ op.name = "execute"
    /\ op.pc = "done"
    /\ op.settings.auto_crop_output
    /\ op.steps = <<"load", "predict", "refine", "compose", "crop">>
    /\ image.width = 2
    /\ result.kind = "ok"
    /\ result.value.was_cropped
    /\ result.value.output.width = 1
    /\ result.value.crop_bounds = <<1, 0, 1, image.height>>

\* C26: execute_with_color, execute_with_image and execute_with_blur return,
\* once the background is replaced, a result whose output is the cropper's
\* result for the replaced image when auto_crop_output is set and the
\* replaced image itself otherwise; the flag never makes the request fail.
C26_ReplaceWithAutoCrop ==
    (/\ op.name \in ReplaceUseCases
     /\ op.pc = "done"
     /\ op.replaced # NoImage)
    => /\ result.kind = "ok"
       /\ IF op.settings.auto_crop_output
          THEN Return(result.value.output) =
                   crop_to_content(op.replaced, DefaultThreshold)
          ELSE result.value.output = op.replaced

C28_ProgressPerPath ==
    (op.name = "batch" /\ op.progress_callback) =>
        /\ \A j \in DOMAIN op.progress :
             /\ op.progress[j].current_file = op.image_paths[j]
             /\ op.progress[j].total = Len(op.image_paths)
             /\ op.progress[j].completed + op.progress[j].failed = j - 1
             /\ op.progress[j].completed + op.progress[j].failed
                    # op.progress[j].total
        /\ \A j, k \in DOMAIN op.progress :
             j < k => /\ op.progress[j].completed <= op.progress[k].completed
                      /\ op.progress[j].failed <= op.progress[k].failed
        /\ \A j \in DOMAIN op.events :
             op.events[j] = <<IF j % 2 = 1 THEN "progress" ELSE "collect",
                              op.image_paths[(j + 1) \div 2]>>
        /\ (op.pc = "done") => Len(op.progress) = Len(op.image_paths)

C28_Witness ==
    /\ op.name = "batch"
    /\ op.progress_callback
    /\ op.pc = "done"
    /\ Len(op.image_paths) = 3
    /\ Len(op.progress) = 3
    /\ op.progress[1] = BatchProgress(3, 0, 0, 1)
    /\ op.progress[2] = BatchProgress(3, 0, 1, 2)
    /\ op.progress[3] = BatchProgress(3, 1, 1, 3)

\* C29: over the lifetime of one engine the dummy warm-up inference succeeds
\* at most once, and only before the first real inference, also when several
\* threads call predict_mask on the engine at the same time.
C29_WarmupRunsOnce ==
    (op.name = "engine") =>
        /\ op.warmups <= 1
        /\ op.late_warmups = 0

\* C21: whatever the interleaving of concurrent invocations on distinct
\* masks, each invocation returns what it returns when run alone, and two
\* invocations with equal inputs return equal outputs.
C21_InvocationsAreIndependent ==
    (op.name = "workers") =>
        /\ \A w \in Threads :
             (op.pc[w] = "done") =>
                 op.returned[w] = apply(op.input[w], op.settings)
        /\ \A v, w \in Threads :
             (/\ op.pc[v] = "done" /\ op.pc[w] = "done"
              /\ op.input[v] = op.input[w])
                 => op.returned[v] = op.returned[w]

C21_Witness ==
    /\ op.name = "workers"
    /\ op.settings.smooth_pixels = 1
    /\ op.settings.feather_pixels = 1
    /\ op.input[1] # op.input[2]
    /\ op.pc[1] = "feather"
    /\ op.pc[2] = "done"
    /\ op.returned[2].kind = "ok"
    /\ op.returned[2] = apply(op.input[2], op.settings)
    /\ op.returned[2] # apply(op.input[1], op.settings)

====
